---- MODULE Spec2Model ----
(***************************************************************************)
(* gitworth (src/app.py): a Flask application with one route,              *)
(* GET /profile/<username>, that fetches a GitHub profile and repository   *)
(* list, scores them with calculate_gitworth and answers with a JSON       *)
(* summary; a flask_caching SimpleCache memoizes get_profile for 300 s.    *)
(*                                                                         *)
(* Python values are modelled as records: an int n is [t |-> "int",        *)
(* v |-> n], None is [t |-> "none"], a raised exception is                 *)
(* [t |-> "raise", exc |-> <class>].  A JSON object (dict) is a function   *)
(* whose DOMAIN is the set of keys that are present, so that an absent key *)
(* and a key holding null are different inputs, as they are to dict.get.   *)
(***************************************************************************)
EXTENDS Integers, Sequences, FiniteSets, TLC

(***************************************************************************)
(* Bounds of the model.                                                    *)
(***************************************************************************)
MaxCount == 1
NearMax == 2499
MaxCalcRepos == 2
MaxRepos == 1
NThreads == 2
MaxRequests == 2
MaxTicks == 2

(***************************************************************************)
(* Program constants.                                                      *)
(***************************************************************************)
MAX_POSSIBLE_SCORE == 10000
TTL == 300

VARIABLES
    profile_data,   \* calculate_gitworth: argument profile_data
    repos_data,     \* calculate_gitworth: argument repos_data
    score,          \* calculate_gitworth: the value returned (or raised)
    now,            \* time.time(), in seconds
    cache,          \* SimpleCache._cache: key -> (expires, value)
    threads,        \* the server's threads, each running at most one call
    nreq            \* calls started so far

calcVars == <<profile_data, repos_data, score>>
appVars == <<now, cache, threads, nreq>>
vars == <<profile_data, repos_data, score, now, cache, threads, nreq>>

----------------------------------------------------------------------------
(***************************************************************************)
(* Python values.                                                          *)
(***************************************************************************)
PyInt(n) == [t |-> "int", v |-> n]
PyNone == [t |-> "none"]
Raise(e) == [t |-> "raise", exc |-> e]
IsInt(x) == x.t = "int"
IsRaise(x) == "t" \in DOMAIN x /\ x.t = "raise"

\* dict.get(key, default): the default is used only when the key is absent;
\* a key that is present with the value null yields None.
Get(d, key, default) == IF key \in DOMAIN d THEN d[key] ELSE default

\* x * n for an int n: None * n raises TypeError.
Times(x, n) ==
    IF IsRaise(x) THEN x
    ELSE IF IsInt(x) THEN PyInt(x.v * n)
    ELSE Raise("TypeError")

\* x + y: int + None raises TypeError.
Plus(x, y) ==
    IF IsRaise(x) THEN x
    ELSE IF IsRaise(y) THEN y
    ELSE IF IsInt(x) /\ IsInt(y) THEN PyInt(x.v + y.v)
    ELSE Raise("TypeError")

\* sum(repo.get(key, 0) for repo in repos): starts from 0 and adds left to right.
RECURSIVE SumFrom(_, _, _, _)
SumFrom(acc, repos, key, i) ==
    IF i > Len(repos) THEN acc
    ELSE SumFrom(Plus(acc, Get(repos[i], key, PyInt(0))), repos, key, i + 1)

SumOf(repos, key) == SumFrom(PyInt(0), repos, key, 1)

(***************************************************************************)
(* Floats.  Every float calculate_gitworth handles is a quotient of the    *)
(* integer raw_score, so it is kept exactly, as a fraction num/den; the    *)
(* value returned is kept as a count of hundredths.  (The double the code  *)
(* returns is the one nearest to that decimal.)                            *)
(***************************************************************************)
\* raw_score / MAX_POSSIBLE_SCORE
TrueDiv(raw) == [num |-> raw, den |-> MAX_POSSIBLE_SCORE]

\* q * 100
Scale100(q) == [num |-> q.num * 100, den |-> q.den]

\* (mutant of Min100: the cap at 100 is left out)
Uncapped(q) == q

\* min(100, q)
Min100(q) == IF 100 * q.den <= q.num THEN [num |-> 100, den |-> 1] ELSE q

\* round(q, 2) in hundredths: to the nearest hundredth, ties to the even one.
Round2(q) ==
    LET lo == (q.num * 100) \div q.den
        rem == (q.num * 100) % q.den
    IN  IF 2 * rem > q.den THEN lo + 1
        ELSE IF 2 * rem < q.den THEN lo
        ELSE IF lo % 2 = 0 THEN lo ELSE lo + 1

\* raw_score = followers*3 + public_repos*2 + stars*4 + forks*1
RawScore(followers, public_repos, stars, forks) ==
    Plus(Plus(Plus(Times(followers, 3), Times(public_repos, 2)), Times(stars, 4)),
         Times(forks, 1))

\* The score in hundredths ([t |-> "float", h |-> hundredths]), or the
\* exception the arithmetic raises.
calculate_gitworth(profile, repos) ==
    LET followers == Get(profile, "followers", PyInt(0))
        public_repos == Get(profile, "public_repos", PyInt(0))
        stars == SumOf(repos, "stargazers_count")
        forks == SumOf(repos, "forks_count")
        raw_score == RawScore(followers, public_repos, stars, forks)
    IN  IF IsRaise(raw_score) THEN raw_score
        ELSE [t |-> "float", h |-> Round2(Min100(Scale100(TrueDiv(raw_score.v))))]

----------------------------------------------------------------------------
(***************************************************************************)
(* Inputs of calculate_gitworth.                                           *)
(***************************************************************************)
\* JSON objects over the given keys: each key absent, or present with one of vals.
Objects(keys, vals) ==
    UNION {[present -> vals] : present \in SUBSET keys}

CalcCounts == (0 .. MaxCount) \cup {NearMax, NearMax + 1}
CalcProfileVals == {PyNone} \cup {PyInt(n) : n \in CalcCounts}
CalcRepoVals == {PyInt(n) : n \in {0, MaxCount, NearMax}}

CalcProfiles == Objects({"followers", "public_repos"}, CalcProfileVals)
CalcRepos == Objects({"stargazers_count", "forks_count"}, CalcRepoVals)
CalcRepoLists == UNION {[1 .. n -> CalcRepos] : n \in 0 .. MaxCalcRepos}

NotCalled == [t |-> "not_called"]

----------------------------------------------------------------------------
(***************************************************************************)
(* get_profile: the part after the two upstream calls (lines 46-65).       *)
(***************************************************************************)
PyStr(x) == [t |-> "str", v |-> x]

\* A requests.Response: its status_code and what .json() parses.
Response(status, json) == [status_code |-> status, json |-> json]

\* What the view returns: jsonify(body) is a 200, (jsonify(body), n) is an n.
Reply(status, body) == [status |-> status, body |-> body]
RateLimited == Reply(403, [error |-> "GitHub API rate limit exceeded. Try again later."])
NotFound == Reply(404, [error |-> "User not found"])

\* The success payload of lines 53-61.
Payload(profile, repos) ==
    [username |-> Get(profile, "login", PyNone),
     name |-> Get(profile, "name", PyNone),
     followers |-> Get(profile, "followers", PyNone),
     public_repos |-> Get(profile, "public_repos", PyNone),
     stars_received |-> SumOf(repos, "stargazers_count"),
     forks_received |-> SumOf(repos, "forks_count"),
     gitworth_score |-> calculate_gitworth(profile, repos)]

\* (mutant of Branch: 403 only when both calls are rate limited)
BranchBothLimited(profile_response, repos_response) ==
    IF profile_response.status_code = 200 /\ repos_response.status_code = 200
    THEN LET body == Payload(profile_response.json, repos_response.json)
         IN  IF IsRaise(body.gitworth_score) THEN body.gitworth_score
             ELSE Reply(200, body)
    ELSE IF profile_response.status_code = 403 /\ repos_response.status_code = 403
    THEN RateLimited
    ELSE NotFound

\* (mutant of Branch: 403 when either call is rate limited)
BranchEitherLimited(profile_response, repos_response) ==
    IF profile_response.status_code = 200 /\ repos_response.status_code = 200
    THEN LET body == Payload(profile_response.json, repos_response.json)
         IN  IF IsRaise(body.gitworth_score) THEN body.gitworth_score
             ELSE Reply(200, body)
    ELSE IF profile_response.status_code = 403 \/ repos_response.status_code = 403
    THEN RateLimited
    ELSE NotFound

\* Lines 46-65: the reply, or the exception that escapes (TypeError is not a
\* RequestException, so the except clause of line 66 does not catch it).
Branch(profile_response, repos_response) ==
    IF profile_response.status_code = 200 /\ repos_response.status_code = 200
    THEN LET body == Payload(profile_response.json, repos_response.json)
         IN  IF IsRaise(body.gitworth_score) THEN body.gitworth_score
             ELSE Reply(200, body)
    ELSE IF profile_response.status_code = 403 THEN RateLimited
    ELSE NotFound

\* (mutant of ExceptReply: the failure is answered as a missing user)
ExceptAsNotFound(e) == NotFound

\* Lines 66-67: a RequestException e raised by requests.get becomes a 500
\* whose body carries str(e).
ExceptReply(e) == Reply(500, [error |-> e])

----------------------------------------------------------------------------
(***************************************************************************)
(* Upstream.  Each GET ends in a response with a status code or in a       *)
(* RequestException; a 200 carries a JSON body, drawn from the sets below. *)
(***************************************************************************)
Usernames == {"octocat", "torvalds"}
Statuses == {200, 403, 404, 500}
Exceptions == {"ConnectionError"}

FieldVals == {PyNone} \cup {PyInt(n) : n \in 0 .. MaxCount}
ProfileBodies(u) ==
    {[k \in DOMAIN b \cup {"login"} |-> IF k = "login" THEN PyStr(u) ELSE b[k]] :
        b \in Objects({"followers", "public_repos"}, FieldVals)}
Repos == Objects({"stargazers_count", "forks_count"}, {PyInt(MaxCount)})
RepoLists == UNION {[1 .. n -> Repos] : n \in 0 .. MaxRepos}

\* The body of a non-200 answer is an error document; the code never reads it.
ErrorDoc == <<>>

ProfileResponses(u) ==
    {Response(200, b) : b \in ProfileBodies(u)}
        \cup {Response(st, ErrorDoc) : st \in Statuses \ {200}}
ReposResponses ==
    {Response(200, l) : l \in RepoLists}
        \cup {Response(st, ErrorDoc) : st \in Statuses \ {200}}

\* What upstream answers while the application runs: a profile whose followers
\* field is absent, null or a count, and a list of MaxRepos complete
\* repository records.
LiveStatuses == {200, 403, 404}
LiveProfileBodies(u) ==
    {b \in ProfileBodies(u) :
        /\ "public_repos" \in DOMAIN b /\ b["public_repos"] = PyInt(MaxCount)
        /\ "followers" \in DOMAIN b => b["followers"] \in {PyNone, PyInt(MaxCount)}}
LiveRepoLists ==
    {l \in RepoLists :
        /\ Len(l) = MaxRepos
        /\ \A i \in 1 .. Len(l) : DOMAIN l[i] = {"stargazers_count", "forks_count"}}
LiveProfileResponses(u) ==
    {Response(200, b) : b \in LiveProfileBodies(u)}
        \cup {Response(st, ErrorDoc) : st \in LiveStatuses \ {200}}
LiveReposResponses ==
    {Response(200, l) : l \in LiveRepoLists}
        \cup {Response(st, ErrorDoc) : st \in LiveStatuses \ {200}}

\* What a GET ends in: a response, or a RequestException raised by requests.get.
Raised(e) == [t |-> "raised", exc |-> e, call |-> 0]
IsRaised(o) == "t" \in DOMAIN o /\ o.t = "raised"

----------------------------------------------------------------------------
(***************************************************************************)
(* State.                                                                  *)
(***************************************************************************)
Threads == 1 .. NThreads
NoEntry == [t |-> "no_entry"]
NoReply == [t |-> "no_reply"]
NoResponse == [t |-> "no_response"]
NoException == [t |-> "no_exception"]

\* A thread: the call it runs (entry, target, username), the call's position
\* and locals (pc, profile_response, repos_response, rv), and a record of what
\* the call did: how many upstream GETs it issued (issued), the exception one
\* of them raised and which one (raised), whether the cache answered it (hit), whether the cache held an expired entry for its
\* username when it started (sawExpired), when it answered an HTTP request
\* with a success (doneAt), and the
\* thread, if any, that had already answered an HTTP request for the same
\* username with a success less than TTL seconds before it started (prior).
Idle ==
    [pc |-> "idle", entry |-> "none", target |-> "none", username |-> "none",
     profile_response |-> NoResponse, repos_response |-> NoResponse,
     rv |-> NoReply, issued |-> 0, raised |-> NoException,
     hit |-> FALSE, sawExpired |-> FALSE, doneAt |-> 0, prior |-> 0]

AppIdle ==
    /\ now = 0
    /\ cache = [k \in Usernames |-> NoEntry]
    /\ threads = [p \in Threads |-> Idle]
    /\ nreq = 0

CalcIdle ==
    /\ profile_data = <<>>
    /\ repos_data = <<>>
    /\ score = NotCalled

(***************************************************************************)
(* calculate_gitworth on its own.                                          *)
(***************************************************************************)
CalcInit ==
    /\ profile_data \in CalcProfiles
    /\ repos_data \in CalcRepoLists
    /\ score = NotCalled
    /\ AppIdle

Calculate ==
    /\ score = NotCalled
    /\ score' = calculate_gitworth(profile_data, repos_data)
    /\ UNCHANGED <<profile_data, repos_data>>
    /\ UNCHANGED appVars

CalcNext == Calculate

SpecCalc == CalcInit /\ [][CalcNext]_vars

(***************************************************************************)
(* Lines 46-65 on their own: thread 1 holds the two responses, then the    *)
(* reply.                                                                  *)
(***************************************************************************)
BranchInit ==
    /\ CalcIdle
    /\ now = 0
    /\ cache = [k \in Usernames |-> NoEntry]
    /\ nreq = 0
    /\ \E u \in Usernames : \E pr \in ProfileResponses(u), rr \in ReposResponses :
          threads = [p \in Threads |->
                        IF p = 1
                        THEN [Idle EXCEPT !.pc = "branch", !.username = u,
                                          !.profile_response = pr,
                                          !.repos_response = rr, !.issued = 2]
                        ELSE Idle]

BranchStep ==
    /\ threads[1].pc = "branch"
    /\ threads' = [threads EXCEPT
                      ![1].pc = "branched",
                      ![1].rv = Branch(threads[1].profile_response,
                                       threads[1].repos_response)]
    /\ UNCHANGED <<now, cache, nreq>>
    /\ UNCHANGED calcVars

BranchNext == BranchStep

SpecBranch == BranchInit /\ [][BranchNext]_vars

----------------------------------------------------------------------------
(***************************************************************************)
(* The application.                                                        *)
(*                                                                         *)
(* Decorators apply bottom-up.  app.route (line 40) registers the function *)
(* it is given, the undecorated get_profile, as the view of                *)
(* /profile/<username>, and returns it unchanged; cache.memoize (line 39)  *)
(* then wraps it, and the module's name get_profile is bound to the        *)
(* wrapper.  So an HTTP request runs the undecorated function, and only a  *)
(* call through the module's name get_profile runs the memoizing wrapper.  *)
(***************************************************************************)
ViewFunction == "undecorated"
ModuleAttribute == "memoized"
Entries == {"http", "direct"}
Target(entry) == IF entry = "http" THEN ViewFunction ELSE ModuleAttribute

\* (mutant of CacheKey: one key for the function, whatever the username)
CacheKeyShared(u) == "octocat"

\* memoize's cache key: one per function and argument list, here the username.
CacheKey(u) == u

\* (mutant of Fresh: the expiry time is not looked at)
FreshForever(e, t) == TRUE

\* SimpleCache.get serves an entry while expires > time().
Fresh(e, t) == e.expires > t

\* SimpleCache.set with timeout 300: expires = time() + timeout.
Entry(value, t) == [expires |-> t + TTL, value |-> value]

\* What Flask answers when the view raises.
InternalServerError == Reply(500, [error |-> "Internal Server Error"])

IsOk(rv) == "status" \in DOMAIN rv /\ rv.status = 200

\* The thread that holds the latest success returned to an HTTP request for
\* username u less than TTL seconds ago (0: there is none).
PriorOf(p, u) ==
    LET others == {q \in Threads \ {p} :
                      /\ threads[q].pc = "done"
                      /\ threads[q].entry = "http"
                      /\ threads[q].username = u
                      /\ IsOk(threads[q].rv)
                      /\ now < threads[q].doneAt + TTL}
    IN  IF others = {} THEN 0
        ELSE CHOOSE q \in others :
                \A r \in others :
                    \/ threads[r].doneAt < threads[q].doneAt
                    \/ threads[r].doneAt = threads[q].doneAt /\ r <= q

\* The function body has ended with the reply rv, or with the exception rv.
\* The wrapper stores a reply next; the undecorated function is done.  An
\* exception passes through the wrapper unstored, and Flask answers the HTTP
\* request with a 500.
Ended(t, rv) ==
    IF IsRaise(rv)
    THEN [t EXCEPT !.pc = "done",
                   !.rv = IF t.entry = "http" THEN InternalServerError ELSE rv]
    ELSE [t EXCEPT !.pc = IF t.target = "memoized" THEN "store" ELSE "done",
                   !.doneAt = IF t.entry = "http" /\ IsOk(rv) THEN now ELSE 0,
                   !.rv = rv]

\* Lines 42-67 with the outcomes o1 and o2 of the two GETs: the second GET is
\* issued only when the first has answered.
RunBody(t, o1, o2) ==
    IF IsRaised(o1)
    THEN Ended([t EXCEPT !.issued = 1, !.raised = [o1 EXCEPT !.call = 1]],
               ExceptReply(o1.exc))
    ELSE IF IsRaised(o2)
    THEN Ended([t EXCEPT !.issued = 2, !.raised = [o2 EXCEPT !.call = 2]],
               ExceptReply(o2.exc))
    ELSE Ended([t EXCEPT !.issued = 2], Branch(o1, o2))

\* A call starts on the first free thread: an HTTP request is dispatched to
\* the view function, or the module's get_profile is called.  The wrapper
\* looks the key up first and returns what an unexpired entry holds.
Call(p, entry, u) ==
    /\ threads[p].pc = "idle"
    /\ \A q \in Threads : q < p => threads[q].pc # "idle"
    /\ nreq < MaxRequests
    /\ nreq' = nreq + 1
    /\ LET e == cache[CacheKey(u)]
           t0 == [Idle EXCEPT !.entry = entry, !.target = Target(entry),
                              !.username = u, !.prior = PriorOf(p, u),
                              !.sawExpired = (e # NoEntry /\ ~(e.expires > now))]
       IN  threads' = [threads EXCEPT ![p] =
               IF Target(entry) = "memoized" /\ e # NoEntry /\ Fresh(e, now)
               THEN [t0 EXCEPT !.pc = "done", !.rv = e.value, !.hit = TRUE,
                               !.doneAt = IF entry = "http" /\ IsOk(e.value)
                                          THEN now ELSE 0]
               ELSE [t0 EXCEPT !.pc = "body"]]
    /\ UNCHANGED <<now, cache>>
    /\ UNCHANGED calcVars

\* The undecorated get_profile runs, lines 42-67: both GETs answer.
Body(p) ==
    /\ threads[p].pc = "body"
    /\ \E o1 \in LiveProfileResponses(threads[p].username), o2 \in LiveReposResponses :
          threads' = [threads EXCEPT ![p] = RunBody(threads[p], o1, o2)]
    /\ UNCHANGED <<now, cache, nreq>>
    /\ UNCHANGED calcVars

\* The undecorated get_profile runs, lines 42-67: the first GET raises, or the
\* first answers and the second raises.
BodyFails(p) ==
    /\ threads[p].pc = "body"
    /\ \E e \in Exceptions :
          \/ threads' = [threads EXCEPT ![p] =
                            RunBody(threads[p], Raised(e), Raised(e))]
          \/ \E o1 \in LiveProfileResponses(threads[p].username) :
                threads' = [threads EXCEPT ![p] = RunBody(threads[p], o1, Raised(e))]
    /\ UNCHANGED <<now, cache, nreq>>
    /\ UNCHANGED calcVars

\* The wrapper stores what the function returned, whatever it is, for TTL
\* seconds, and returns it.
Store(p) ==
    /\ threads[p].pc = "store"
    /\ cache' = [cache EXCEPT ![CacheKey(threads[p].username)] =
                    Entry(threads[p].rv, now)]
    /\ threads' = [threads EXCEPT
                      ![p].pc = "done",
                      ![p].doneAt = IF threads[p].entry = "http" /\ IsOk(threads[p].rv)
                                    THEN now ELSE 0]
    /\ UNCHANGED <<now, nreq>>
    /\ UNCHANGED calcVars

\* The answer has been sent and the thread is free for the next call, if
\* there is one.
Return(p) ==
    /\ threads[p].pc = "done"
    /\ nreq < MaxRequests
    /\ threads' = [q \in Threads |->
                      IF q = p THEN Idle
                      ELSE IF threads[q].prior = p THEN [threads[q] EXCEPT !.prior = 0]
                      ELSE threads[q]]
    /\ UNCHANGED <<now, cache, nreq>>
    /\ UNCHANGED calcVars

\* Time passes, two thirds of the TTL at a time: a second look at an entry
\* comes within its TTL, a third one after it.  The clock is followed while a
\* call is running or can still start.
TickStep == (2 * TTL) \div 3

Tick ==
    /\ now + TickStep <= MaxTicks * TickStep
    /\ \/ nreq < MaxRequests
       \/ \E p \in Threads : threads[p].pc \in {"body", "store"}
    /\ now' = now + TickStep
    /\ UNCHANGED <<cache, threads, nreq>>
    /\ UNCHANGED calcVars

Init == CalcIdle /\ AppIdle

Next ==
    \/ \E p \in Threads, entry \in Entries, u \in Usernames : Call(p, entry, u)
    \/ \E p \in Threads : Body(p)
    \/ \E p \in Threads : BodyFails(p)
    \/ \E p \in Threads : Store(p)
    \/ \E p \in Threads : Return(p)
    \/ Tick

Spec == Init /\ [][Next]_vars

----------------------------------------------------------------------------
(***************************************************************************)
(* Properties.                                                             *)
(***************************************************************************)
Min(a, b) == IF a <= b THEN a ELSE b

\* The count a record carries under key, a missing or null one taken as 0.
CountOr0(d, key) == IF key \in DOMAIN d /\ IsInt(d[key]) THEN d[key].v ELSE 0

\* The total of a count over a repository list, a missing one taken as 0.
RECURSIVE Total(_, _)
Total(repos, key) ==
    IF repos = <<>> THEN 0
    ELSE CountOr0(Head(repos), key) + Total(Tail(repos), key)

\* 3f + 2p + 4s + t
Weighted(f, p, s, t) == 3 * f + 2 * p + 4 * s + t

RawOf(profile, repos) ==
    Weighted(CountOr0(profile, "followers"), CountOr0(profile, "public_repos"),
             Total(repos, "stargazers_count"), Total(repos, "forks_count"))

Called == score # NotCalled
HasCounts(profile) ==
    /\ DOMAIN profile = {"followers", "public_repos"}
    /\ IsInt(profile["followers"])
    /\ IsInt(profile["public_repos"])

\* C6: for non-negative integers followers, public_repos and totals of stars
\* and forks, calculate_gitworth returns min(10000, 3f + 2p + 4s + t)
\* hundredths: a value in [0, 100] that is 0 for all-zero inputs and is 100
\* exactly when 3f + 2p + 4s + t >= 10000.
C6_ScoreIsCappedWeightedSum ==
    (Called /\ HasCounts(profile_data)) =>
        LET raw == RawOf(profile_data, repos_data)
        IN  /\ score.t = "float"
            /\ score.h = Min(10000, raw)
            /\ score.h >= 0 /\ score.h <= 10000
            /\ raw = 0 => score.h = 0
            /\ score.h = 10000 <=> raw >= 10000

\* C6 witness: a score computed from a raw score of exactly 10000, and so the
\* least input that saturates.
C6_Witness ==
    /\ Called /\ HasCounts(profile_data)
    /\ RawOf(profile_data, repos_data) = 10000
    /\ repos_data # <<>>
    /\ score.t = "float" /\ score.h = 10000

\* C7: calculate_gitworth never fails on sparse input: with followers or
\* public_repos absent or null and repository entries lacking their counts it
\* returns the score computed with each such field taken as 0.
C7_SparseInputScores ==
    Called =>
        /\ score.t = "float"
        /\ score.h = Min(10000, RawOf(profile_data, repos_data))

Branched == threads[1].pc = "branched"
ProfileStatus == threads[1].profile_response.status_code
ReposStatus == threads[1].repos_response.status_code

\* C3: whenever the profile call returns 403, get_profile answers 403 with the
\* rate-limit message, whatever the status of the repositories call.
C3_ProfileRateLimitedIs403 ==
    (Branched /\ ProfileStatus = 403) => threads[1].rv = RateLimited

\* C3 witness: a profile 403 next to a repositories 200, answered 403.
C3_Witness ==
    /\ Branched /\ ProfileStatus = 403 /\ ReposStatus = 200
    /\ threads[1].rv.status = 403

\* C4: whenever both calls complete, the profile status is not 403 and one of
\* the statuses is not 200, get_profile answers 404 "User not found"; a profile
\* 200 with a repositories 403 is a 404.
C4_OtherFailureIs404 ==
    (Branched /\ ProfileStatus # 403 /\ (ProfileStatus # 200 \/ ReposStatus # 200))
        => threads[1].rv = NotFound

\* C4 witness: a profile 200 next to a repositories 403, answered 404.
C4_Witness ==
    /\ Branched /\ ProfileStatus = 200 /\ ReposStatus = 403
    /\ threads[1].rv.status = 404

\* C8: whenever both calls return 200, get_profile answers 200 with a payload
\* whose stars_received and forks_received are the sums over the repository
\* list (a missing count taken as 0), whose followers and public_repos are
\* integers, and whose gitworth_score is min(100, (3*followers +
\* 2*public_repos + 4*stars_received + forks_received) / 100) of those fields.
C8_SuccessPayload ==
    (Branched /\ ProfileStatus = 200 /\ ReposStatus = 200) =>
        LET rv == threads[1].rv
            repos == threads[1].repos_response.json
        IN  /\ IsOk(rv)
            /\ rv.body.stars_received = PyInt(Total(repos, "stargazers_count"))
            /\ rv.body.forks_received = PyInt(Total(repos, "forks_count"))
            /\ IsInt(rv.body.followers)
            /\ IsInt(rv.body.public_repos)
            /\ rv.body.gitworth_score.h =
                  Min(10000, Weighted(rv.body.followers.v, rv.body.public_repos.v,
                                      rv.body.stars_received.v,
                                      rv.body.forks_received.v))

Over(p) == threads[p].pc \in {"store", "done"}

\* C1: once a GET /profile/u has returned a success payload, every later
\* GET /profile/u that arrives within the 300 seconds of the TTL returns the
\* same payload and issues no upstream GET.
C1_RepeatWithinTTLServedFromCache ==
    \A p \in Threads :
        (threads[p].entry = "http" /\ threads[p].prior # 0) =>
            /\ threads[p].issued = 0
            /\ Over(p) => threads[p].rv = threads[threads[p].prior].rv

\* C2: a cache entry older than its TTL is never served: a call that finds
\* the entry of its username expired is not answered from the cache, it issues
\* upstream GETs and answers with what they returned.
C2_ExpiredEntryNotServed ==
    \A p \in Threads :
        threads[p].sawExpired =>
            /\ ~threads[p].hit
            /\ Over(p) => threads[p].issued >= 1

\* C2 witness: a call through the memoizing wrapper found an expired entry,
\* issued both GETs and stored their result in place of it.
C2_Witness ==
    \E p \in Threads :
        /\ threads[p].sawExpired /\ threads[p].pc = "done"
        /\ threads[p].target = "memoized"
        /\ threads[p].issued = 2 /\ IsOk(threads[p].rv)
        /\ cache[threads[p].username] = Entry(threads[p].rv, now)

\* C5: if either outbound call fails at the transport level, get_profile
\* answers 500 with the failure's description, never 200, 403 or 404, and a
\* failure of the first call means the second is not issued.
C5_TransportFailureIs500 ==
    \A p \in Threads :
        (Over(p) /\ threads[p].raised # NoException) =>
            /\ threads[p].rv = Reply(500, [error |-> threads[p].raised.exc])
            /\ threads[p].rv.status \notin {200, 403, 404}
            /\ threads[p].raised.call = 1 => threads[p].issued = 1
            /\ threads[p].raised.call = 2 => threads[p].issued = 2

\* C5 witness: an HTTP request whose profile GET raised: one GET issued, and
\* a 500 returned.
C5_Witness ==
    \E p \in Threads :
        /\ threads[p].pc = "done" /\ threads[p].entry = "http"
        /\ threads[p].raised # NoException /\ threads[p].raised.call = 1
        /\ threads[p].issued = 1 /\ threads[p].rv.status = 500

\* C9: only success payloads are ever stored in the cache: a call that ends
\* in a 403, 404 or 500 leaves the cache as it was.
C9_OnlySuccessCached ==
    \A k \in Usernames : cache[k] # NoEntry => IsOk(cache[k].value)

\* What one call of get_profile for each username can return.
RepliesFor ==
    [u \in Usernames |->
        {r \in {Branch(o1, o2) : o1 \in LiveProfileResponses(u),
                                 o2 \in LiveReposResponses} : ~IsRaise(r)}
            \cup {ExceptReply(e) : e \in Exceptions}]

\* C10: under any interleaving of calls for the same or different usernames,
\* every cache entry under key u holds the complete reply of one call for u,
\* built from what upstream returned for u: never a mix, never the reply of
\* another username.
C10_EntryIsOneCallsReply ==
    \A k \in Usernames :
        cache[k] # NoEntry =>
            /\ cache[k].value \in RepliesFor[k]
            /\ IsOk(cache[k].value) => cache[k].value.body.username = PyStr(k)

\* C10 witness: two calls for the same username both missed, both fetched
\* and both stored, with different replies; the entry holds the later one.
C10_Witness ==
    \E p, q \in Threads :
        /\ p # q
        /\ threads[p].pc = "done" /\ threads[q].pc = "done"
        /\ threads[p].target = "memoized" /\ threads[q].target = "memoized"
        /\ threads[p].username = threads[q].username
        /\ ~threads[p].hit /\ ~threads[q].hit
        /\ threads[p].issued = 2 /\ threads[q].issued = 2
        /\ IsOk(threads[p].rv) /\ IsOk(threads[q].rv)
        /\ threads[p].rv # threads[q].rv
        /\ cache[threads[p].username].value = threads[q].rv

====
